---------------------------- MODULE Spec2Model ----------------------------
(*************************************************************************)
(* elasticsearch-query-helper: the fragment builders (and, or, gte, lte,  *)
(* lt, between, isIn, equals) and the result flattener                    *)
(* (flatTermsAggregations, flatTopHitsAggregation, runGroupingQuery,      *)
(* runTopHitsQuery, runSimplesQuery) of src/src/index.ts.                 *)
(*                                                                        *)
(* JavaScript values are tagged records: the tag t is the type, and each  *)
(* type keeps its payload under a field of its own.  An object with       *)
(* computed keys is a function from its key strings to values; a key that *)
(* is present with the value undefined is in the DOMAIN and maps to       *)
(* Undefined.  A lazy sequence (FluentIterable) is the trace it produces  *)
(* when drained: the elements it yields, and whether it then ends         *)
(* normally or throws.                                                    *)
(*************************************************************************)
EXTENDS Integers, Sequences, FiniteSets, TLC

VARIABLES
    call,       \* builders: the last builder call, [fn, args]
    ret,        \* builders: what that call returned
    pc,         \* flattener: position of the caller / async function
    op,         \* flattener: the entry point that was called
    path,       \* flattener: <<firstAgg>> \o others
    client,     \* the client.search promise: none, pending, ok(body), fail(error)
    promise,    \* the promise returned by a run*Query: none, pending, resolved, rejected
    outcome,    \* what the caller holds: none, a lazy sequence, or a thrown error
    yielded,    \* the elements the caller has pulled so far
    drain,      \* state of the iteration: "idle", "open", "ended", "thrown"
    requests,   \* number of client.search requests issued
    response,   \* the raw response the flattening reads (Undefined before there is one)
    steps,      \* the flattening functions that have run, in call order
    params,     \* the params object the caller gave to a run*Query
    searched,   \* the params objects passed to client.search, in request order
    argsAfter,  \* builders: the caller's arguments as they are after the call
    calls       \* concurrent run*Query calls on one client, by call name

builderVars == <<call, ret, argsAfter>>

requestVars == <<requests, params, searched>>

flattenerVars == <<pc, op, path, client, promise, outcome, yielded, drain,
                   requestVars, response, steps>>

concVars == <<calls>>

vars == <<builderVars, flattenerVars, concVars>>

-----------------------------------------------------------------------------
(* Bounds *)

MaxItems == 3       \* longest list given to and / or
MaxFrag == 2        \* caller-owned fragment objects
MaxNum == 1         \* numbers 0..MaxNum
MaxValues == 2      \* longest list given to isIn
MaxNodes == 3       \* buckets in the aggregations of one response
MaxHits == 2        \* hit envelopes in one hit list
MaxPath == 2        \* names in an aggregation path (grouping levels)
MaxOrders == 2      \* longest list of pairs given to orderBy
MaxTree == 4        \* builder calls in one composed query expression

-----------------------------------------------------------------------------
(* JavaScript values *)

Undefined == [t |-> "undefined"]

Null == [t |-> "null"]

NaNv == [t |-> "NaN"]

Num(n) == [t |-> "number", n |-> n]

Str(s) == [t |-> "string", s |-> s]

Bool(b) == [t |-> "boolean", b |-> b]

\* a reference to the caller's object number i (identity is the number)
Ref(i) == [t |-> "ref", id |-> i]

\* an object literal built by the call, with its own properties
Obj(f) == [t |-> "object", props |-> f]

\* an array built or given
Arr(s) == [t |-> "array", items |-> s]

\* the outcome of a call that threw instead of returning
Raise(e) == [t |-> "exception", error |-> e]

\* reading a property or calling a method of undefined or null throws
Nullish(v) == v.t \in {"undefined", "null"}

\* ToBoolean
Truthy(v) ==
    ~ \/ v.t \in {"undefined", "null", "NaN"}
      \/ (v.t = "number" /\ v.n = 0)
      \/ (v.t = "string" /\ v.s = "")
      \/ (v.t = "boolean" /\ ~v.b)

\* the `identity` predicate of is-this-a-pigeon, used as a filter callback
identity(v) == Truthy(v)

Fields == {"myField", "other"}

Primitives ==
    {Undefined, Null, NaNv, Str(""), Str("myValue"), Bool(FALSE), Bool(TRUE)}
        \cup {Num(n) : n \in 0..MaxNum}

Fragments == {Ref(i) : i \in 1..MaxFrag}

SeqsUpTo(S, n) == UNION {[1..k -> S] : k \in 0..n}

-----------------------------------------------------------------------------
(* Fragment builders *)

\* andOr without its case 1: a single survivor is wrapped like any other
andOrAlwaysWraps(items, field) ==
    IF Nullish(items)
    THEN Raise("TypeError")
    ELSE LET wrapped == SelectSeq(items.items, identity)
         IN  IF Len(wrapped) = 0
             THEN Undefined
             ELSE Obj("bool" :> Obj(field :> Arr(wrapped)))

\* items.filter(identity) throws when items is undefined or null
andOr(items, field) ==
    IF Nullish(items)
    THEN Raise("TypeError")
    ELSE LET values == SelectSeq(items.items, identity)
         IN  CASE Len(values) = 0 -> Undefined
               [] Len(values) = 1 -> values[1]
               [] OTHER -> Obj("bool" :> Obj(field :> Arr(values)))

and(items) == andOr(items, "must")

or(items) == andOr(items, "should")

\* gte testing value !== undefined instead of the truthiness of value
gteDefinedOnly(field, value) ==
    IF value # Undefined
    THEN Obj("range" :> Obj(field :> Obj("gte" :> value)))
    ELSE Undefined

gte(field, value) ==
    IF Truthy(value)
    THEN Obj("range" :> Obj(field :> Obj("gte" :> value)))
    ELSE Undefined

lte(field, value) ==
    IF Truthy(value)
    THEN Obj("range" :> Obj(field :> Obj("lte" :> value)))
    ELSE Undefined

lt(field, value) ==
    IF Truthy(value)
    THEN Obj("range" :> Obj(field :> Obj("lt" :> value)))
    ELSE Undefined

\* between leaving out the key of an undefined boundary
betweenOmitsAbsent(field, from, to) ==
    IF ~Truthy(from) /\ ~Truthy(to)
    THEN Undefined
    ELSE Obj("range" :> Obj(field :>
            Obj((IF from = Undefined THEN <<>> ELSE ("gte" :> from))
                @@ (IF to = Undefined THEN <<>> ELSE ("lte" :> to)))))

\* between returning undefined as soon as one boundary is falsy (|| for &&)
betweenEitherAbsent(field, from, to) ==
    IF ~Truthy(from) \/ ~Truthy(to)
    THEN Undefined
    ELSE Obj("range" :> Obj(field :> Obj(("gte" :> from) @@ ("lte" :> to))))

between(field, from, to) ==
    IF ~Truthy(from) /\ ~Truthy(to)
    THEN Undefined
    ELSE Obj("range" :> Obj(field :> Obj(("gte" :> from) @@ ("lte" :> to))))

isDefined(x) == x # Undefined

\* isIn without the filter of undefined entries (values?.length ? ... )
isInUnfiltered(field, values) ==
    IF ~Truthy(values) \/ Len(values.items) = 0
    THEN Undefined
    ELSE Obj("terms" :> Obj(field :> Arr(values.items)))

\* isIn keeping the truthy entries only (values.filter(identity))
isInTruthyOnly(field, values) ==
    IF ~Truthy(values)
    THEN Undefined
    ELSE LET truthyValues == SelectSeq(values.items, identity)
         IN  IF Len(truthyValues) # 0
             THEN Obj("terms" :> Obj(field :> Arr(truthyValues)))
             ELSE Undefined

isIn(field, values) ==
    IF ~Truthy(values)
    THEN Undefined
    ELSE LET definedValues == SelectSeq(values.items, isDefined)
         IN  IF Len(definedValues) # 0
             THEN Obj("terms" :> Obj(field :> Arr(definedValues)))
             ELSE Undefined

equals(field, value) == isIn(field, Arr(<<value>>))

select(includes) ==
    IF Truthy(includes) THEN Obj("includes" :> includes) ELSE Undefined

\* nested wrapping whatever it is given, an absent sub-query included
nestedAlwaysWraps(nestedPath, query) ==
    Obj("nested" :> Obj(("path" :> Str(nestedPath)) @@ ("query" :> query)))

nested(nestedPath, query) ==
    IF Truthy(query)
    THEN Obj("nested" :> Obj(("path" :> Str(nestedPath)) @@ ("query" :> query)))
    ELSE Undefined

\* orders.map(...) throws when orders is undefined or null
orderBy(orders) ==
    IF Nullish(orders)
    THEN Raise("TypeError")
    ELSE Arr([i \in 1..Len(orders.items) |->
                Obj(orders.items[i].items[1].s :> orders.items[i].items[2])])

\* typeof NaN is 'number'; size[0] throws when size is undefined or null
topHits(size, sort, fields) ==
    IF size.t \in {"number", "NaN"}
    THEN Obj("tops" :> Obj("top_hits" :>
            Obj(("size" :> size) @@ ("sort" :> sort)
                @@ ("_source" :> select(fields)))))
    ELSE IF Nullish(size)
    THEN Raise("TypeError")
    ELSE Obj("tops" :> Obj("top_hits" :>
            Obj(("from" :> size.items[1]) @@ ("size" :> size.items[2])
                @@ ("sort" :> sort) @@ ("_source" :> select(fields)))))

lastHit(sort, fields) == topHits(Num(1), sort, fields)

min(field, alias) == Obj(alias :> Obj("min" :> Obj("field" :> Str(field))))

max(field, alias) == Obj(alias :> Obj("max" :> Obj("field" :> Str(field))))

\* order[0] throws when order is undefined or null
by(field, order, size, aggregate) ==
    IF order.t # "string" /\ Nullish(order)
    THEN Raise("TypeError")
    ELSE Obj(field :> Obj(
            ("terms" :> Obj(("field" :> Str(field))
                @@ ("order" :> IF order.t = "string"
                               THEN Obj("_key" :> order)
                               ELSE Obj(order.items[1].s :> order.items[2]))
                @@ ("size" :> size)))
            @@ ("aggs" :> aggregate)))

\* field[0] and order[0] throw when field or order is undefined or null
byExpr(field, order, size, aggregate) ==
    IF Nullish(field) \/ Nullish(order)
    THEN Raise("TypeError")
    ELSE Obj(field.items[1].s :> Obj(
            ("terms" :> Obj(
                ("script" :> Obj(("source" :> field.items[2])
                                 @@ ("lang" :> Str("painless"))))
                @@ ("order" :> Obj(order.items[1].s :> order.items[2]))
                @@ ("size" :> size)))
            @@ ("aggs" :> aggregate)))

group(aggs) == Obj(("aggs" :> aggs) @@ ("size" :> Num(0)))

where(query) == IF Truthy(query) THEN Obj("query" :> query) ELSE Obj(<<>>)

-----------------------------------------------------------------------------
(* Calls of the builders: each action is one call by the caller *)

NoCall == [fn |-> "none", args |-> <<>>]

\* the builders filtering the caller's list itself (splice in a loop)
ArgsAfterInPlace(fn, args) ==
    IF fn \in {"and", "or"} /\ args[1].t = "array"
    THEN <<Arr(SelectSeq(args[1].items, identity))>>
    ELSE IF fn = "isIn" /\ args[2].t = "array"
    THEN <<args[1], Arr(SelectSeq(args[2].items, isDefined))>>
    ELSE args

\* the arguments as the call leaves them: the builders read their arguments
\* only; items.filter, values.filter and orders.map return a new array, and
\* the objects returned are literals built by the call
ArgsAfter(fn, args) == args

\* what a caller may give as the list of and / or: a list, or nothing
ItemLists ==
    {Arr(l) : l \in SeqsUpTo(Fragments \cup {Undefined, Null}, MaxItems)}
        \cup {Undefined}

CallAnd ==
    /\ call = NoCall
    /\ \E items \in ItemLists :
        /\ call' = [fn |-> "and", args |-> <<items>>]
        /\ argsAfter' = ArgsAfter("and", <<items>>)
        /\ ret' = and(items)
        /\ UNCHANGED <<flattenerVars, concVars>>

CallOr ==
    /\ call = NoCall
    /\ \E items \in ItemLists :
        /\ call' = [fn |-> "or", args |-> <<items>>]
        /\ argsAfter' = ArgsAfter("or", <<items>>)
        /\ ret' = or(items)
        /\ UNCHANGED <<flattenerVars, concVars>>

CallGte ==
    /\ call = NoCall
    /\ \E field \in Fields, value \in Primitives :
        /\ call' = [fn |-> "gte", args |-> <<Str(field), value>>]
        /\ argsAfter' = ArgsAfter("gte", <<Str(field), value>>)
        /\ ret' = gte(field, value)
        /\ UNCHANGED <<flattenerVars, concVars>>

CallLte ==
    /\ call = NoCall
    /\ \E field \in Fields, value \in Primitives :
        /\ call' = [fn |-> "lte", args |-> <<Str(field), value>>]
        /\ argsAfter' = ArgsAfter("lte", <<Str(field), value>>)
        /\ ret' = lte(field, value)
        /\ UNCHANGED <<flattenerVars, concVars>>

CallLt ==
    /\ call = NoCall
    /\ \E field \in Fields, value \in Primitives :
        /\ call' = [fn |-> "lt", args |-> <<Str(field), value>>]
        /\ argsAfter' = ArgsAfter("lt", <<Str(field), value>>)
        /\ ret' = lt(field, value)
        /\ UNCHANGED <<flattenerVars, concVars>>

CallBetween ==
    /\ call = NoCall
    /\ \E field \in Fields, from \in Primitives, to \in Primitives :
        /\ call' = [fn |-> "between", args |-> <<Str(field), from, to>>]
        /\ argsAfter' = ArgsAfter("between", <<Str(field), from, to>>)
        /\ ret' = between(field, from, to)
        /\ UNCHANGED <<flattenerVars, concVars>>

CallIsIn ==
    /\ call = NoCall
    /\ \E field \in Fields,
       values \in {Undefined, Null}
                    \cup {Arr(s) : s \in SeqsUpTo(Primitives, MaxValues)} :
        /\ call' = [fn |-> "isIn", args |-> <<Str(field), values>>]
        /\ argsAfter' = ArgsAfter("isIn", <<Str(field), values>>)
        /\ ret' = isIn(field, values)
        /\ UNCHANGED <<flattenerVars, concVars>>

CallEquals ==
    /\ call = NoCall
    /\ \E field \in Fields, value \in Primitives :
        /\ call' = [fn |-> "equals", args |-> <<Str(field), value>>]
        /\ argsAfter' = ArgsAfter("equals", <<Str(field), value>>)
        /\ ret' = equals(field, value)
        /\ UNCHANGED <<flattenerVars, concVars>>

OrderTypes == {"asc", "desc"}

\* the [field, order] tuples of orderBy and of the order of by / byExpr
OrderPairs == {Arr(<<Str(f), Str(o)>>) : f \in Fields, o \in OrderTypes}

OrderLists == {Arr(l) : l \in SeqsUpTo(OrderPairs, MaxOrders)} \cup {Undefined}

Sorts == {orderBy(Arr(l)) : l \in SeqsUpTo(OrderPairs, 1)} \cup {Undefined}

Sizes ==
    {Undefined, Null, NaNv} \cup {Num(n) : n \in 0..MaxNum}
        \cup {Arr(<<Num(a), Num(b)>>) : a, b \in 0..MaxNum}

FieldLists ==
    {Undefined, Arr(<<>>), Arr(<<Str("myField")>>),
     Arr(<<Str("myField"), Str("other")>>)}

Aliases == {"first", "last"}

ExprFields == {Arr(<<Str("byMonth"), Str("doc.date.value")>>), Undefined}

CallSelect ==
    /\ call = NoCall
    /\ \E includes \in FieldLists :
        /\ call' = [fn |-> "select", args |-> <<includes>>]
        /\ argsAfter' = ArgsAfter("select", <<includes>>)
        /\ ret' = select(includes)
        /\ UNCHANGED <<flattenerVars, concVars>>

CallNested ==
    /\ call = NoCall
    /\ \E field \in Fields, query \in Fragments \cup {Undefined, Null} :
        /\ call' = [fn |-> "nested", args |-> <<Str(field), query>>]
        /\ argsAfter' = ArgsAfter("nested", <<Str(field), query>>)
        /\ ret' = nested(field, query)
        /\ UNCHANGED <<flattenerVars, concVars>>

CallOrderBy ==
    /\ call = NoCall
    /\ \E orders \in OrderLists :
        /\ call' = [fn |-> "orderBy", args |-> <<orders>>]
        /\ argsAfter' = ArgsAfter("orderBy", <<orders>>)
        /\ ret' = orderBy(orders)
        /\ UNCHANGED <<flattenerVars, concVars>>

CallTopHits ==
    /\ call = NoCall
    /\ \E size \in Sizes, sort \in Sorts, fields \in FieldLists :
        /\ call' = [fn |-> "topHits", args |-> <<size, sort, fields>>]
        /\ argsAfter' = ArgsAfter("topHits", <<size, sort, fields>>)
        /\ ret' = topHits(size, sort, fields)
        /\ UNCHANGED <<flattenerVars, concVars>>

CallLastHit ==
    /\ call = NoCall
    /\ \E sort \in Sorts, fields \in FieldLists :
        /\ call' = [fn |-> "lastHit", args |-> <<sort, fields>>]
        /\ argsAfter' = ArgsAfter("lastHit", <<sort, fields>>)
        /\ ret' = lastHit(sort, fields)
        /\ UNCHANGED <<flattenerVars, concVars>>

CallMin ==
    /\ call = NoCall
    /\ \E field \in Fields, alias \in Aliases :
        /\ call' = [fn |-> "min", args |-> <<Str(field), Str(alias)>>]
        /\ argsAfter' = ArgsAfter("min", <<Str(field), Str(alias)>>)
        /\ ret' = min(field, alias)
        /\ UNCHANGED <<flattenerVars, concVars>>

CallMax ==
    /\ call = NoCall
    /\ \E field \in Fields, alias \in Aliases :
        /\ call' = [fn |-> "max", args |-> <<Str(field), Str(alias)>>]
        /\ argsAfter' = ArgsAfter("max", <<Str(field), Str(alias)>>)
        /\ ret' = max(field, alias)
        /\ UNCHANGED <<flattenerVars, concVars>>

CallBy ==
    /\ call = NoCall
    /\ \E field \in Fields,
       order \in {Str(o) : o \in OrderTypes} \cup OrderPairs \cup {Undefined, Null},
       size \in {Num(n) : n \in 0..MaxNum} \cup {Undefined},
       aggregate \in Fragments :
        /\ call' = [fn |-> "by", args |-> <<Str(field), order, size, aggregate>>]
        /\ argsAfter' = ArgsAfter("by", <<Str(field), order, size, aggregate>>)
        /\ ret' = by(field, order, size, aggregate)
        /\ UNCHANGED <<flattenerVars, concVars>>

CallByExpr ==
    /\ call = NoCall
    /\ \E field \in ExprFields,
       order \in OrderPairs \cup {Undefined},
       size \in {Num(n) : n \in 0..MaxNum} \cup {Undefined},
       aggregate \in Fragments :
        /\ call' = [fn |-> "byExpr", args |-> <<field, order, size, aggregate>>]
        /\ argsAfter' = ArgsAfter("byExpr", <<field, order, size, aggregate>>)
        /\ ret' = byExpr(field, order, size, aggregate)
        /\ UNCHANGED <<flattenerVars, concVars>>

CallGroup ==
    /\ call = NoCall
    /\ \E aggs \in Fragments \cup {Undefined} :
        /\ call' = [fn |-> "group", args |-> <<aggs>>]
        /\ argsAfter' = ArgsAfter("group", <<aggs>>)
        /\ ret' = group(aggs)
        /\ UNCHANGED <<flattenerVars, concVars>>

CallWhere ==
    /\ call = NoCall
    /\ \E query \in Fragments \cup {Undefined, Null} :
        /\ call' = [fn |-> "where", args |-> <<query>>]
        /\ argsAfter' = ArgsAfter("where", <<query>>)
        /\ ret' = where(query)
        /\ UNCHANGED <<flattenerVars, concVars>>

\* Composed query expressions: a tree of and / or / nested calls over leaf
\* calls, evaluated innermost first as JavaScript evaluates the arguments.
Leaves ==
    {[k |-> "leaf", fn |-> "gte", arg |-> v] : v \in {Num(0), Str("myValue")}}
        \cup {[k |-> "leaf", fn |-> "equals", arg |-> v] : v \in {Undefined, Num(0)}}
        \cup {[k |-> "leaf", fn |-> "isIn", arg |-> Arr(<<Undefined>>)]}

RECURSIVE TreesOfSize(_), ForestsOfSize(_)

\* the expressions made of exactly n calls
TreesOfSize(n) ==
    IF n = 0
    THEN {}
    ELSE (IF n = 1 THEN Leaves ELSE {})
         \cup {[k |-> "nested", sub |-> t] : t \in TreesOfSize(n - 1)}
         \cup {[k |-> c, subs |-> f] : c \in {"and", "or"}, f \in ForestsOfSize(n - 1)}

\* the argument lists made of exactly m calls in all
ForestsOfSize(m) ==
    IF m = 0
    THEN {<<>>}
    ELSE UNION {{<<t>> \o f : t \in TreesOfSize(j), f \in ForestsOfSize(m - j)}
                    : j \in 1..m}

Trees == UNION {TreesOfSize(n) : n \in 1..MaxTree}

EvalLeaf(l) ==
    CASE l.fn = "gte" -> gte("myField", l.arg)
      [] l.fn = "equals" -> equals("myField", l.arg)
      [] l.fn = "isIn" -> isIn("myField", l.arg)

RECURSIVE EvalTree(_)

EvalTree(t) ==
    CASE t.k = "leaf" -> EvalLeaf(t)
      [] t.k = "nested" -> nested("other", EvalTree(t.sub))
      [] t.k = "and" -> and(Arr([i \in 1..Len(t.subs) |-> EvalTree(t.subs[i])]))
      [] t.k = "or" -> or(Arr([i \in 1..Len(t.subs) |-> EvalTree(t.subs[i])]))

\* where(<expression>): the expression is evaluated, then given to where
CallWhereOfTree ==
    /\ call = NoCall
    /\ \E tree \in Trees :
        /\ call' = [fn |-> "whereOf", args |-> <<tree>>]
        /\ argsAfter' = ArgsAfter("whereOf", <<tree>>)
        /\ ret' = where(EvalTree(tree))
        /\ UNCHANGED <<flattenerVars, concVars>>

\* the Search params objects a caller may pass (built with group / where)
ParamsObjects == {"groupParams", "whereParams"}

NoParams == "none"

FlattenerIdle ==
    /\ pc = "idle"
    /\ op = "none"
    /\ path = <<>>
    /\ client = [st |-> "none"]
    /\ promise = [st |-> "none"]
    /\ outcome = [st |-> "none"]
    /\ yielded = <<>>
    /\ drain = "idle"
    /\ requests = 0
    /\ params = NoParams
    /\ searched = <<>>
    /\ response = Undefined
    /\ steps = <<>>

InitBuilders ==
    /\ call = NoCall
    /\ ret = Undefined
    /\ argsAfter = <<>>
    /\ calls = <<>>
    /\ FlattenerIdle

NextBuilders ==
    \/ CallAnd
    \/ CallOr
    \/ CallGte
    \/ CallLte
    \/ CallLt
    \/ CallBetween
    \/ CallIsIn
    \/ CallEquals
    \/ CallSelect
    \/ CallNested
    \/ CallOrderBy
    \/ CallTopHits
    \/ CallLastHit
    \/ CallMin
    \/ CallMax
    \/ CallBy
    \/ CallByExpr
    \/ CallGroup
    \/ CallWhere
    \/ CallWhereOfTree

SpecBuilders == InitBuilders /\ [][NextBuilders]_vars

-----------------------------------------------------------------------------
(* Raw responses (the shape of RawTopResult and of the aggregations tree).  *)
(* Every hit envelope of a response wraps a distinct record {id: n}, n      *)
(* counting the envelopes in document order; the bucket at position i of a  *)
(* bucket list has the key BucketKeys[i].                                   *)

Names == {"byCategory", "byBrand"}

BucketKeys == <<"a", "b", "c", "d", "e">>

Errors == {"ConnectionError", "ResponseError"}

Rec(n) == Obj("id" :> Num(n))

Envelope(n) == Obj("_source" :> Rec(n))

HitList(start, k) == Arr([i \in 1..k |-> Envelope(start + i - 1)])

HitsNode(start, k) == Obj("hits" :> Obj("hits" :> HitList(start, k)))

AggNode(list) == Obj("buckets" :> Arr(list))

RECURSIVE ListShapes(_, _)
RECURSIVE BucketShapes(_, _)

\* the shapes of a bucket of exactly s nodes with at most d grouping levels
\* below it: a falsy entry, a bucket with its key only, a bucket with a
\* top-hits node of k envelopes, a bucket with one named sub-aggregation
BucketShapes(s, d) ==
    (IF s = 1
     THEN {[k |-> "null"], [k |-> "bare"]}
            \cup {[k |-> "tops", hits |-> h] : h \in 0..MaxHits}
     ELSE {})
    \cup (IF d = 0
          THEN {}
          ELSE {[k |-> "terms", name |-> nm, buckets |-> l]
                    : nm \in Names, l \in ListShapes(s - 1, d - 1)})

\* the shapes of a bucket list of exactly n nodes in all
ListShapes(n, d) ==
    IF n = 0
    THEN {<<>>}
    ELSE UNION {{<<b>> \o r : b \in BucketShapes(s, d), r \in ListShapes(n - s, d)}
                    : s \in 1..n}

RECURSIVE DecorateList(_, _, _)
RECURSIVE DecorateBucket(_, _, _)

\* the bucket of a shape, at position i of its list, its first envelope
\* being number start; next is the number of the first envelope after it
DecorateBucket(shape, start, i) ==
    LET keyed == ("key" :> Str(BucketKeys[i]))
    IN  CASE shape.k = "null" -> [val |-> Null, next |-> start]
          [] shape.k = "bare" -> [val |-> Obj(keyed), next |-> start]
          [] shape.k = "tops" ->
                [val |-> Obj(keyed @@ ("tops" :> HitsNode(start, shape.hits))),
                 next |-> start + shape.hits]
          [] shape.k = "terms" ->
                LET sub == DecorateList(shape.buckets, start, 1)
                IN  [val |-> Obj(keyed @@ (shape.name :> AggNode(sub.list))),
                     next |-> sub.next]

DecorateList(shapes, start, i) ==
    IF shapes = <<>>
    THEN [list |-> <<>>, next |-> start]
    ELSE LET first == DecorateBucket(Head(shapes), start, i)
             others == DecorateList(Tail(shapes), first.next, i + 1)
         IN  [list |-> <<first.val>> \o others.list, next |-> others.next]

\* the bucket-list shapes of at most MaxNodes nodes
AllListShapes ==
    {l \in UNION {ListShapes(n, MaxPath - 1) : n \in 0..MaxNodes} : TRUE}

\* the aggregations section: absent, empty, or one named aggregation whose
\* bucket list has one of the shapes
AggregationsOf(shapes) ==
    {[val |-> Undefined, next |-> 1], [val |-> Obj(<<>>), next |-> 1]}
    \cup {LET top == DecorateList(l, 1, 1)
          IN  [val |-> Obj(nm :> AggNode(top.list)), next |-> top.next]
             : nm \in Names, l \in shapes}

AggregationsGen == AggregationsOf(AllListShapes)

\* the response body: absent, or the top-level hit list with or without an
\* aggregations section
BodiesOf(aggs, hitCounts) ==
    {Undefined}
    \cup {Obj(("hits" :> Obj("hits" :> HitList(a.next, h)))
              @@ IF a.val = Undefined THEN <<>> ELSE ("aggregations" :> a.val))
             : a \in aggs, h \in hitCounts}

Bodies == BodiesOf(AggregationsGen, 0..MaxHits)

Responses == {Obj("body" :> b) : b \in Bodies}

Paths == UNION {[1..k -> Names] : k \in 1..MaxPath}

-----------------------------------------------------------------------------
(* Lazy sequences of @codibre/fluent-iterable, as their drain trace:        *)
(* out is what the sequence yields, in order, and throws says whether the   *)
(* pull after the last element throws a TypeError instead of ending.  The   *)
(* stages are lazy, so the elements that precede a failing element are      *)
(* yielded before the failure.                                              *)

Seq_(out, throws) == [st |-> "seq", out |-> out, throws |-> throws]

Thrown(e) == [st |-> "thrown", error |-> e]

\* the result of a callback: an array to flatten, a value, or a TypeError
Ok(v) == [ok |-> TRUE, val |-> v]

Fail == [ok |-> FALSE]

\* x[k], for x an object
Get(x, k) == IF k \in DOMAIN x.props THEN x.props[k] ELSE Undefined

\* x[k], where reading a property of undefined or null is a TypeError
Prop(x, k) ==
    IF ~x.ok \/ x.val.t \in {"undefined", "null"}
    THEN Fail
    ELSE IF x.val.t = "object" THEN Ok(Get(x.val, k)) ELSE Ok(Undefined)

\* x?.[k]
OptProp(x, k) ==
    IF x.ok /\ x.val.t \in {"undefined", "null"} THEN Ok(Undefined) ELSE Prop(x, k)

fluent(array) == Seq_(array.items, FALSE)

\* a filter stage that lets every entry through
filterNothing(s) == s

\* filter() without a predicate keeps the truthy entries
filter(s) == Seq_(SelectSeq(s.out, Truthy), s.throws)

RECURSIVE Flatten(_, _)
\* concatenates the arrays the callback returned, up to the first failure;
\* a callback result that is not iterable fails when it is reached
Flatten(results, throws) ==
    IF results = <<>>
    THEN Seq_(<<>>, throws)
    ELSE IF ~Head(results).ok \/ Head(results).val.t # "array"
         THEN Seq_(<<>>, TRUE)
         ELSE LET flatRest == Flatten(Tail(results), throws)
              IN  Seq_(Head(results).val.items \o flatRest.out, flatRest.throws)

\* the elements a callback is applied to
Elems(s) == {s.out[i] : i \in 1..Len(s.out)}

\* f maps each element to the result of the callback
flatMap(s, f) == Flatten([i \in 1..Len(s.out) |-> f[s.out[i]]], s.throws)

RECURSIVE Collect(_, _)
\* the mapped values up to the first failure
Collect(results, throws) ==
    IF results = <<>>
    THEN Seq_(<<>>, throws)
    ELSE IF ~Head(results).ok
         THEN Seq_(<<>>, TRUE)
         ELSE LET mappedRest == Collect(Tail(results), throws)
              IN  Seq_(<<Head(results).val>> \o mappedRest.out, mappedRest.throws)

map(s, f) == Collect([i \in 1..Len(s.out) |-> f[s.out[i]]], s.throws)

-----------------------------------------------------------------------------
(* Result flattener *)

RECURSIVE flatTermsLoopLenient(_, _, _)
\* the loop with x[others[i]]?.buckets ?? []: a bucket without the name is
\* skipped instead of failing
flatTermsLoopLenient(result, others, i) ==
    IF i > Len(others)
    THEN result
    ELSE LET lenientKept == filter(result)
             lenientBuckets ==
                [x \in Elems(lenientKept) |->
                    IF others[i] \in DOMAIN x.props
                    THEN Prop(Prop(Ok(x), others[i]), "buckets")
                    ELSE Ok(Arr(<<>>))]
         IN  flatTermsLoopLenient(flatMap(lenientKept, lenientBuckets),
                                  others, i + 1)

RECURSIVE flatTermsLoopFilterLast(_, _, _)
\* the loop filtering the list of the last name too, before returning it
flatTermsLoopFilterLast(result, others, i) ==
    IF i > Len(others)
    THEN filter(result)
    ELSE LET lastKept == filter(result)
             lastBuckets ==
                [x \in Elems(lastKept) |-> Prop(Prop(Ok(x), others[i]), "buckets")]
         IN  flatTermsLoopFilterLast(flatMap(lastKept, lastBuckets), others, i + 1)

RECURSIVE flatTermsLoop(_, _, _)
\* for (let i = 0; i < others.length; i++) result = result.filter().flatMap(...)
flatTermsLoop(result, others, i) ==
    IF i > Len(others)
    THEN result
    ELSE LET truthy == filter(result)
             subBuckets ==
                [x \in Elems(truthy) |-> Prop(Prop(Ok(x), others[i]), "buckets")]
         IN  flatTermsLoop(flatMap(truthy, subBuckets), others, i + 1)

\* flatTermsAggregations without the guard on an absent aggregations section
flatTermsAggregationsNoGuard(resp, firstAgg, others) ==
    LET unguarded == Prop(Prop(OptProp(Prop(Ok(resp), "body"), "aggregations"),
                               firstAgg), "buckets")
    IN  IF ~unguarded.ok
        THEN Thrown("TypeError")
        ELSE flatTermsLoop(fluent(unguarded.val), others, 1)

\* flatTermsAggregations materialising its result before returning it: a
\* failure anywhere in the walk is thrown by the call itself
flatTermsAggregationsEager(resp, firstAgg, others) ==
    LET eagerAggs == OptProp(Prop(Ok(resp), "body"), "aggregations")
    IN  IF ~Truthy(eagerAggs.val)
        THEN fluent(Arr(<<>>))
        ELSE LET eagerBuckets == Prop(Prop(eagerAggs, firstAgg), "buckets")
             IN  IF ~eagerBuckets.ok
                 THEN Thrown("TypeError")
                 ELSE LET walked == flatTermsLoop(fluent(eagerBuckets.val), others, 1)
                      IN  IF walked.throws THEN Thrown("TypeError") ELSE walked

\* flatTermsAggregations taking the names from the last to the first
flatTermsAggregationsBackwards(resp, firstAgg, others) ==
    LET named == <<firstAgg>> \o others
        backwards == [i \in 1..Len(named) |-> named[Len(named) + 1 - i]]
        backAggs == OptProp(Prop(Ok(resp), "body"), "aggregations")
    IN  IF ~Truthy(backAggs.val)
        THEN fluent(Arr(<<>>))
        ELSE LET backBuckets == Prop(Prop(backAggs, Head(backwards)), "buckets")
             IN  IF ~backBuckets.ok
                 THEN Thrown("TypeError")
                 ELSE flatTermsLoop(fluent(backBuckets.val), Tail(backwards), 1)

flatTermsAggregations(resp, firstAgg, others) ==
    LET aggregations == OptProp(Prop(Ok(resp), "body"), "aggregations")
    IN  IF ~Truthy(aggregations.val)
        THEN fluent(Arr(<<>>))
        ELSE LET buckets == Prop(Prop(aggregations, firstAgg), "buckets")
             IN  IF ~buckets.ok
                 THEN Thrown("TypeError")
                 ELSE flatTermsLoop(fluent(buckets.val), others, 1)

\* flatTopHitsAggregation mapping each bucket to its first hit only
\* (x[aggName].hits.hits[0] instead of the flatMap over the hit list)
flatTopHitsFirstHit(s, aggName) ==
    LET firstKept == filter(s)
        firstHitOf ==
            [x \in Elems(firstKept) |->
                LET allHits == Prop(Prop(Prop(Ok(x), aggName), "hits"), "hits")
                IN  IF ~allHits.ok
                    THEN Fail
                    ELSE IF allHits.val.items = <<>>
                         THEN Ok(Arr(<<>>))
                         ELSE Ok(Arr(<<allHits.val.items[1]>>))]
        firstHits == flatMap(firstKept, firstHitOf)
    IN  map(firstHits, [x \in Elems(firstHits) |-> Prop(Ok(x), "_source")])

flatTopHitsAggregation(s, aggName) ==
    LET topBuckets == filter(s)
        envelopes ==
            flatMap(topBuckets,
                    [x \in Elems(topBuckets) |->
                        Prop(Prop(Prop(Ok(x), aggName), "hits"), "hits")])
    IN  map(envelopes, [x \in Elems(envelopes) |-> Prop(Ok(x), "_source")])

\* an await wrapped in a catch that rethrows a new error
awaitSearchWrapped(c) ==
    IF c.st = "fail" THEN Thrown("Error") ELSE [st |-> "value", val |-> c.response]

\* const response = await client.search(params): the awaited value, or the
\* rejection of the client's promise thrown into the async function
awaitSearch(c) ==
    IF c.st = "fail" THEN Thrown(c.error) ELSE [st |-> "value", val |-> c.response]

\* the run*Query functions, from the settled client promise c: the result is
\* what the async function returns or throws, steps the flattening functions
\* it has called
runGroupingQuery(c, firstAgg, others) ==
    LET awaitedG == awaitSearch(c)
    IN  IF awaitedG.st = "thrown"
        THEN [result |-> awaitedG, steps |-> <<>>]
        ELSE [result |-> flatTermsAggregations(awaitedG.val, firstAgg, others),
              steps |-> <<"flatTermsAggregations">>]

\* runTopHitsQuery walking the first name only (the ...others not passed on)
runTopHitsQueryFirstOnly(c, firstAgg, others) ==
    LET awaitedF == awaitSearch(c)
    IN  IF awaitedF.st = "thrown"
        THEN [result |-> awaitedF, steps |-> <<>>]
        ELSE LET firstTerms == flatTermsAggregations(awaitedF.val, firstAgg, <<>>)
             IN  IF firstTerms.st = "thrown"
                 THEN [result |-> firstTerms, steps |-> <<"flatTermsAggregations">>]
                 ELSE [result |-> flatTopHitsAggregation(firstTerms, "tops"),
                       steps |-> <<"flatTermsAggregations",
                                   "flatTopHitsAggregation">>]

runTopHitsQuery(c, firstAgg, others) ==
    LET awaitedT == awaitSearch(c)
    IN  IF awaitedT.st = "thrown"
        THEN [result |-> awaitedT, steps |-> <<>>]
        ELSE LET terms == flatTermsAggregations(awaitedT.val, firstAgg, others)
             IN  IF terms.st = "thrown"
                 THEN [result |-> terms, steps |-> <<"flatTermsAggregations">>]
                 ELSE [result |-> flatTopHitsAggregation(terms, "tops"),
                       steps |-> <<"flatTermsAggregations",
                                   "flatTopHitsAggregation">>]

\* runSimplesQuery handing out the hit envelopes (the map to _source forgotten)
runSimplesQueryEnvelopes(c) ==
    LET awaitedE == awaitSearch(c)
    IN  IF awaitedE.st = "thrown"
        THEN [result |-> awaitedE, steps |-> <<>>]
        ELSE LET hitsE == Prop(Prop(Prop(Ok(awaitedE.val), "body"), "hits"), "hits")
             IN  IF ~hitsE.ok
                 THEN [result |-> Thrown("TypeError"), steps |-> <<>>]
                 ELSE [result |-> fluent(hitsE.val), steps |-> <<"map">>]

runSimplesQuery(c) ==
    LET awaitedS == awaitSearch(c)
    IN  IF awaitedS.st = "thrown"
        THEN [result |-> awaitedS, steps |-> <<>>]
        ELSE LET hits == Prop(Prop(Prop(Ok(awaitedS.val), "body"), "hits"), "hits")
             IN  IF ~hits.ok
                 THEN [result |-> Thrown("TypeError"), steps |-> <<>>]
                 ELSE [result |-> map(fluent(hits.val),
                                      [x \in Elems(fluent(hits.val)) |->
                                            Prop(Ok(x), "_source")]),
                       steps |-> <<"map">>]

-----------------------------------------------------------------------------
(* The caller, the client and the async functions *)

\* the caller applies flatTermsAggregations to a raw response it holds
CallFlatTermsAggregations ==
    /\ pc = "idle"
    /\ \E resp \in Responses, p \in Paths :
        /\ pc' = "returned"
        /\ op' = "flatTermsAggregations"
        /\ path' = p
        /\ response' = resp
        /\ outcome' = flatTermsAggregations(resp, Head(p), Tail(p))
        /\ steps' = <<"flatTermsAggregations">>
        /\ UNCHANGED <<client, promise, yielded, drain, requestVars, builderVars, concVars>>

\* the caller applies flatTopHitsAggregation (default aggName) to the bucket
\* sequence it was given, before draining it
CallFlatTopHitsAggregation ==
    /\ pc = "returned"
    /\ outcome.st = "seq"
    /\ drain = "idle"
    /\ steps = <<"flatTermsAggregations">>
    /\ outcome' = flatTopHitsAggregation(outcome, "tops")
    /\ steps' = Append(steps, "flatTopHitsAggregation")
    /\ UNCHANGED <<pc, op, path, client, promise, yielded, drain, requestVars,
                   response, builderVars, concVars>>

\* a run*Query call up to its await: the request is issued, the promise of
\* the async function is returned pending
\* a call that issues the request twice (a fan-out, or a retry issued up front)
IssueSearchTwice(o, p, q) ==
    /\ pc = "idle"
    /\ pc' = "awaiting"
    /\ op' = o
    /\ path' = p
    /\ params' = q
    /\ client' = [st |-> "pending"]
    /\ promise' = [st |-> "pending"]
    /\ requests' = requests + 2
    /\ searched' = searched \o <<q, q>>
    /\ UNCHANGED <<outcome, yielded, drain, response, steps, builderVars, concVars>>

IssueSearch(o, p, q) ==
    /\ pc = "idle"
    /\ pc' = "awaiting"
    /\ op' = o
    /\ path' = p
    /\ params' = q
    /\ client' = [st |-> "pending"]
    /\ promise' = [st |-> "pending"]
    /\ requests' = requests + 1
    /\ searched' = Append(searched, q)
    /\ UNCHANGED <<outcome, yielded, drain, response, steps, builderVars, concVars>>

CallRunGroupingQuery ==
    /\ pc = "idle"
    /\ \E p \in Paths, q \in ParamsObjects : IssueSearch("runGroupingQuery", p, q)

CallRunTopHitsQuery ==
    /\ pc = "idle"
    /\ \E p \in Paths, q \in ParamsObjects : IssueSearch("runTopHitsQuery", p, q)

CallRunSimplesQuery ==
    /\ pc = "idle"
    /\ \E q \in ParamsObjects : IssueSearch("runSimplesQuery", <<>>, q)

\* the search service answers
ClientResolves ==
    /\ pc = "awaiting"
    /\ client.st = "pending"
    /\ \E resp \in Responses :
        /\ client' = [st |-> "ok", response |-> resp]
        /\ UNCHANGED <<pc, op, path, promise, outcome, yielded, drain, requestVars,
                       response, steps, builderVars, concVars>>

\* the request fails (connectivity, query rejected by the service)
ClientRejects ==
    /\ pc = "awaiting"
    /\ client.st = "pending"
    /\ \E e \in Errors :
        /\ client' = [st |-> "fail", error |-> e]
        /\ UNCHANGED <<pc, op, path, promise, outcome, yielded, drain, requestVars,
                       response, steps, builderVars, concVars>>

\* the async function resumes after its await and runs to its end
Settle(run) ==
    /\ pc' = "returned"
    /\ response' = IF client.st = "ok" THEN client.response ELSE response
    /\ outcome' = run.result
    /\ promise' = IF run.result.st = "thrown"
                  THEN [st |-> "rejected", error |-> run.result.error]
                  ELSE [st |-> "resolved"]
    /\ steps' = run.steps
    /\ UNCHANGED <<op, path, client, yielded, drain, requestVars, builderVars, concVars>>

ResumeRunGroupingQuery ==
    /\ pc = "awaiting"
    /\ op = "runGroupingQuery"
    /\ client.st \in {"ok", "fail"}
    /\ Settle(runGroupingQuery(client, Head(path), Tail(path)))

ResumeRunTopHitsQuery ==
    /\ pc = "awaiting"
    /\ op = "runTopHitsQuery"
    /\ client.st \in {"ok", "fail"}
    /\ Settle(runTopHitsQuery(client, Head(path), Tail(path)))

ResumeRunSimplesQuery ==
    /\ pc = "awaiting"
    /\ op = "runSimplesQuery"
    /\ client.st \in {"ok", "fail"}
    /\ Settle(runSimplesQuery(client))

\* the caller pulls the next element of the sequence it holds
Pull ==
    /\ pc = "returned"
    /\ outcome.st = "seq"
    /\ drain \in {"idle", "open"}
    /\ IF Len(yielded) < Len(outcome.out)
       THEN /\ yielded' = Append(yielded, outcome.out[Len(yielded) + 1])
            /\ drain' = "open"
       ELSE /\ yielded' = yielded
            /\ drain' = IF outcome.throws THEN "thrown" ELSE "ended"
    /\ UNCHANGED <<pc, op, path, client, promise, outcome, requestVars, response,
                   steps, builderVars, concVars>>

Init == InitBuilders

Next ==
    \/ CallFlatTermsAggregations
    \/ CallFlatTopHitsAggregation
    \/ CallRunGroupingQuery
    \/ CallRunTopHitsQuery
    \/ CallRunSimplesQuery
    \/ ClientResolves
    \/ ClientRejects
    \/ ResumeRunGroupingQuery
    \/ ResumeRunTopHitsQuery
    \/ ResumeRunSimplesQuery
    \/ Pull

Spec == Init /\ [][Next]_vars

-----------------------------------------------------------------------------
(* The caller of the library: it builds a fragment, or flattens a response  *)
(* and drains the sequence, which it may iterate again from the start.      *)

Redrain ==
    /\ pc = "returned"
    /\ outcome.st = "seq"
    /\ drain \in {"ended", "thrown"}
    /\ yielded' = <<>>
    /\ drain' = "idle"
    /\ UNCHANGED <<pc, op, path, client, promise, outcome, requestVars, response,
                   steps, builderVars, concVars>>

NextFrame ==
    \/ (pc = "idle" /\ NextBuilders)
    \/ (call = NoCall /\ Next)
    \/ Redrain

SpecFrame == Init /\ [][NextFrame]_vars

-----------------------------------------------------------------------------
(* Several run*Query calls in flight on one client.  Each call is an async  *)
(* function invocation with its own params, path and awaited response; the  *)
(* client settles the searches in any order.                                *)

\* the orchestration functions
RunOps == {"runGroupingQuery", "runTopHitsQuery", "runSimplesQuery"}

CallIds == {"A", "B"}

\* the bucket-list shapes the concurrent calls are answered with
ConcListShapes ==
    {<<>>, <<[k |-> "null"]>>, <<[k |-> "tops", hits |-> MaxHits]>>,
     <<[k |-> "bare"], [k |-> "tops", hits |-> 1]>>}

ConcResponses ==
    {Obj("body" :> b) : b \in BodiesOf(AggregationsOf(ConcListShapes), {1})}

ConcPaths == {p \in Paths : Len(p) = 1}

\* the run*Query of the name, from the settled search c
RunOf(o, c, p) ==
    CASE o = "runGroupingQuery" -> runGroupingQuery(c, Head(p), Tail(p)).result
      [] o = "runTopHitsQuery" -> runTopHitsQuery(c, Head(p), Tail(p)).result
      [] o = "runSimplesQuery" -> runSimplesQuery(c).result

\* how many searches the client has settled
SettledCount(cs) == Cardinality({i \in DOMAIN cs : cs[i].settled > 0})

\* a single `response` shared by the invocations: the continuation reads
\* the response of the search that settled last
AwaitedShared(cs, id) ==
    LET last == CHOOSE i \in DOMAIN cs : cs[i].settled = SettledCount(cs)
    IN  cs[last].client

\* const response = await client.search(params): local to the invocation
Awaited(cs, id) == cs[id].client

StartCall(id) ==
    /\ id \notin DOMAIN calls
    /\ \E o \in RunOps, p \in ConcPaths :
        calls' = calls @@ (id :>
            [op |-> o,
             path |-> IF o = "runSimplesQuery" THEN <<>> ELSE p,
             pc |-> "awaiting",
             issued |-> Cardinality(DOMAIN calls) + 1,
             settled |-> 0,
             client |-> [st |-> "pending"],
             outcome |-> [st |-> "none"],
             yielded |-> <<>>,
             drain |-> "idle"])
    /\ UNCHANGED <<builderVars, flattenerVars>>

SearchResolves(id) ==
    /\ id \in DOMAIN calls
    /\ calls[id].client.st = "pending"
    /\ \E resp \in ConcResponses :
        calls' = [calls EXCEPT ![id].client = [st |-> "ok", response |-> resp],
                               ![id].settled = SettledCount(calls) + 1]
    /\ UNCHANGED <<builderVars, flattenerVars>>

SearchRejects(id) ==
    /\ id \in DOMAIN calls
    /\ calls[id].client.st = "pending"
    /\ \E e \in Errors :
        calls' = [calls EXCEPT ![id].client = [st |-> "fail", error |-> e],
                               ![id].settled = SettledCount(calls) + 1]
    /\ UNCHANGED <<builderVars, flattenerVars>>

\* the invocation resumes after its await and runs to its return or throw
ResumeCall(id) ==
    /\ id \in DOMAIN calls
    /\ calls[id].pc = "awaiting"
    /\ calls[id].client.st \in {"ok", "fail"}
    /\ calls' = [calls EXCEPT
                    ![id].pc = "returned",
                    ![id].outcome = RunOf(calls[id].op, Awaited(calls, id),
                                          calls[id].path)]
    /\ UNCHANGED <<builderVars, flattenerVars>>

\* the caller pulls the next element of the sequence of the call
PullCall(id) ==
    /\ id \in DOMAIN calls
    /\ calls[id].pc = "returned"
    /\ calls[id].outcome.st = "seq"
    /\ calls[id].drain \in {"idle", "open"}
    /\ calls' =
        IF Len(calls[id].yielded) < Len(calls[id].outcome.out)
        THEN [calls EXCEPT
                ![id].yielded = Append(@, calls[id].outcome.out[Len(@) + 1]),
                ![id].drain = "open"]
        ELSE [calls EXCEPT
                ![id].drain = IF calls[id].outcome.throws
                              THEN "thrown" ELSE "ended"]
    /\ UNCHANGED <<builderVars, flattenerVars>>

NextConc ==
    \E id \in CallIds :
        \/ StartCall(id)
        \/ SearchResolves(id)
        \/ SearchRejects(id)
        \/ ResumeCall(id)
        \/ PullCall(id)

SpecConc == Init /\ [][NextConc]_vars

-----------------------------------------------------------------------------
(* Properties of the fragment builders (SpecBuilders) *)

FalsyValues == {Undefined, Null, NaNv, Num(0), Str(""), Bool(FALSE)}

\* s is made of the entries of items at the positions kept, in their order
IsSelection(s, items, kept) ==
    /\ Len(s) = Cardinality(kept)
    /\ \E idx \in [1..Len(s) -> kept] :
        /\ \A j, k \in 1..Len(s) : j < k => idx[j] < idx[k]
        /\ \A j \in 1..Len(s) : s[j] = items[idx[j]]

IsListCall == call.fn \in {"and", "or"} /\ call.args[1].t = "array"

SurvivorsOfCall == {i \in 1..Len(call.args[1].items) : call.args[1].items[i] \notin FalsyValues}

\* C3: and(items) / or(items) discard the falsy entries, then return undefined
\* when none survives, the single survivor itself (the same object, no bool
\* wrapper) when one survives, and otherwise {bool: {must: S}} / {bool:
\* {should: S}} with S the survivors in their original relative order.
ThmC3_AndOr ==
    IsListCall =>
        LET itemsC3 == call.args[1].items
            keyC3 == IF call.fn = "and" THEN "must" ELSE "should"
        IN  /\ SurvivorsOfCall = {} => ret = Undefined
            /\ Cardinality(SurvivorsOfCall) = 1 =>
                    \A i \in SurvivorsOfCall : ret = itemsC3[i]
            /\ Cardinality(SurvivorsOfCall) >= 2 =>
                    /\ ret.t = "object"
                    /\ DOMAIN ret.props = {"bool"}
                    /\ ret.props["bool"].t = "object"
                    /\ DOMAIN ret.props["bool"].props = {keyC3}
                    /\ ret.props["bool"].props[keyC3].t = "array"
                    /\ IsSelection(ret.props["bool"].props[keyC3].items,
                                   itemsC3, SurvivorsOfCall)

\* a single fragment between absent entries came back as itself
WitC3_SingleSurvivor ==
    /\ IsListCall
    /\ Len(call.args[1].items) = 3
    /\ SurvivorsOfCall = {2}
    /\ ret = call.args[1].items[2]
    /\ ret.t = "ref"

\* C4: gte, lte and lt return undefined exactly for a falsy value, and
\* otherwise {range: {[field]: {K: value}}} with the one key K = gte, lte, lt.
ThmC4_RangeComparators ==
    call.fn \in {"gte", "lte", "lt"} =>
        /\ (ret = Undefined) <=> (call.args[2] \in FalsyValues)
        /\ ret # Undefined =>
            /\ ret.t = "object"
            /\ DOMAIN ret.props = {"range"}
            /\ DOMAIN ret.props["range"].props = {call.args[1].s}
            /\ DOMAIN ret.props["range"].props[call.args[1].s].props = {call.fn}
            /\ ret.props["range"].props[call.args[1].s].props[call.fn] = call.args[2]

\* gte was given the falsy number 0 and returned undefined
WitC4_ZeroIsAbsent ==
    /\ call.fn = "gte"
    /\ call.args[2] = Num(0)
    /\ ret = Undefined

\* the inner object of a range fragment returned by the last call
RangeInner == ret.props["range"].props[call.args[1].s].props

\* C5: between(field, undefined, undefined) is undefined; with a non-falsy
\* boundary it returns a range whose inner object has both the gte and the
\* lte key, each set to the argument given for it.
ThmC5_Between ==
    call.fn = "between" =>
        /\ (call.args[2] = Undefined /\ call.args[3] = Undefined) => ret = Undefined
        /\ (call.args[2] \notin FalsyValues \/ call.args[3] \notin FalsyValues)
                => ret # Undefined
        /\ ret # Undefined =>
            /\ ret.t = "object"
            /\ DOMAIN ret.props = {"range"}
            /\ DOMAIN ret.props["range"].props = {call.args[1].s}
            /\ DOMAIN RangeInner = {"gte", "lte"}
            /\ RangeInner["gte"] = call.args[2]
            /\ RangeInner["lte"] = call.args[3]

\* between(field, v, undefined) returned gte: v, lte: undefined
WitC5_OnlyFrom ==
    /\ call.fn = "between"
    /\ call.args[2] = Str("myValue")
    /\ call.args[3] = Undefined
    /\ ret # Undefined
    /\ RangeInner["lte"] = Undefined

ExactlyOneBoundary ==
    /\ call.fn = "between"
    /\ (call.args[2] \in FalsyValues) # (call.args[3] \in FalsyValues)

\* C6 as stated: with exactly one boundary present, both keys are there and
\* the key of the absent (falsy) boundary holds undefined.
CexC6_AbsentKeyIsUndefined ==
    ExactlyOneBoundary =>
        /\ ret # Undefined
        /\ DOMAIN RangeInner = {"gte", "lte"}
        /\ call.args[2] \in FalsyValues => RangeInner["gte"] = Undefined
        /\ call.args[3] \in FalsyValues => RangeInner["lte"] = Undefined

\* C6 (amended): between is undefined exactly when both boundaries are falsy;
\* with exactly one boundary present both keys are there, and the key of the
\* absent boundary holds the falsy value that was given for it (undefined only
\* when undefined was given).
ThmC6_AbsentKeyKeepsArgument ==
    /\ call.fn = "between" =>
        ((ret = Undefined) <=>
            (call.args[2] \in FalsyValues /\ call.args[3] \in FalsyValues))
    /\ ExactlyOneBoundary =>
        /\ ret # Undefined
        /\ DOMAIN RangeInner = {"gte", "lte"}
        /\ call.args[2] \in FalsyValues => RangeInner["gte"] = call.args[2]
        /\ call.args[3] \in FalsyValues => RangeInner["lte"] = call.args[3]

\* between(field, 0, v) returned gte: 0
WitC6_ZeroKept ==
    /\ ExactlyOneBoundary
    /\ call.args[2] = Num(0)
    /\ ret # Undefined
    /\ RangeInner["gte"] = Num(0)

DefinedOfCall ==
    IF call.args[2].t = "array"
    THEN {i \in 1..Len(call.args[2].items) : call.args[2].items[i] # Undefined}
    ELSE {}

\* C7: isIn(field, values) is undefined when values is absent, empty or made
\* of undefined entries only, and otherwise {terms: {[field]: F}} with F the
\* entries of values that are not undefined, in their order; equals(field, v)
\* is what isIn(field, [v]) is: undefined for v undefined, terms over [v]
\* otherwise.
ThmC7_IsIn ==
    /\ call.fn = "isIn" =>
        /\ (ret = Undefined) <=> (DefinedOfCall = {})
        /\ ret # Undefined =>
            /\ ret.t = "object"
            /\ DOMAIN ret.props = {"terms"}
            /\ DOMAIN ret.props["terms"].props = {call.args[1].s}
            /\ ret.props["terms"].props[call.args[1].s].t = "array"
            /\ IsSelection(ret.props["terms"].props[call.args[1].s].items,
                           call.args[2].items, DefinedOfCall)
    /\ call.fn = "equals" =>
        ret = IF call.args[2] = Undefined
              THEN Undefined
              ELSE Obj("terms" :> Obj(call.args[1].s :> Arr(<<call.args[2]>>)))

\* isIn dropped an undefined entry and kept the entry after it
WitC7_Filtered ==
    /\ call.fn = "isIn"
    /\ call.args[2].t = "array"
    /\ Len(call.args[2].items) = 2
    /\ DefinedOfCall = {2}
    /\ ret # Undefined
    /\ ret.props["terms"].props[call.args[1].s].items = <<call.args[2].items[2]>>

-----------------------------------------------------------------------------
(* Properties of the result flattener (Spec).  The expected walk is stated   *)
(* on the response tree itself, bucket by bucket in document order.          *)

AggsOf(resp) ==
    IF resp.t = "object"
       /\ resp.props["body"].t = "object"
       /\ "aggregations" \in DOMAIN resp.props["body"].props
    THEN resp.props["body"].props["aggregations"]
    ELSE Undefined

HitSources(b) ==
    LET envs == b.props["tops"].props["hits"].props["hits"].items
    IN  [i \in 1..Len(envs) |-> envs[i].props["_source"]]

RECURSIVE RefWalkList(_, _, _)
RECURSIVE RefWalkBucket(_, _, _)

\* what one bucket contributes when the names that remain are walked below
\* it (and its hits unwrapped, if unwrap): out, and bad when the bucket, or a
\* bucket below it, lacks the node the walk needs; out then stops before it
RefWalkBucket(b, names, unwrap) ==
    IF names # <<>>
    THEN IF b = Null
         THEN [out |-> <<>>, bad |-> FALSE]
         ELSE IF Head(names) \notin DOMAIN b.props
              THEN [out |-> <<>>, bad |-> TRUE]
              ELSE RefWalkList(b.props[Head(names)].props["buckets"].items,
                               Tail(names), unwrap)
    ELSE IF ~unwrap
         THEN [out |-> <<b>>, bad |-> FALSE]
         ELSE IF b = Null
              THEN [out |-> <<>>, bad |-> FALSE]
              ELSE IF "tops" \notin DOMAIN b.props
                   THEN [out |-> <<>>, bad |-> TRUE]
                   ELSE [out |-> HitSources(b), bad |-> FALSE]

RefWalkList(list, names, unwrap) ==
    IF list = <<>>
    THEN [out |-> <<>>, bad |-> FALSE]
    ELSE LET firstB == RefWalkBucket(Head(list), names, unwrap)
         IN  IF firstB.bad
             THEN firstB
             ELSE LET restB == RefWalkList(Tail(list), names, unwrap)
                  IN  [out |-> firstB.out \o restB.out, bad |-> restB.bad]

HasAggregations == response # Undefined /\ AggsOf(response) # Undefined

FirstNamePresent == HasAggregations /\ Head(path) \in DOMAIN AggsOf(response).props

FirstNameMissing == HasAggregations /\ Head(path) \notin DOMAIN AggsOf(response).props

Unwrapped == steps = <<"flatTermsAggregations", "flatTopHitsAggregation">>

\* the walk of the current response along the current path
RefWalk(unwrap) ==
    RefWalkList(AggsOf(response).props[Head(path)].props["buckets"].items,
                Tail(path), unwrap)

FlattenOps == {"flatTermsAggregations", "runGroupingQuery", "runTopHitsQuery"}

Returned == pc = "returned" /\ op \in FlattenOps /\ response # Undefined

\* the path does not match the response: the first name, a later name in a
\* bucket of the walk, or (when unwrapping) the top-hits node is missing
Mismatch == FirstNameMissing \/ (FirstNamePresent /\ RefWalk(Unwrapped).bad)

MatchesPath == FirstNamePresent /\ ~RefWalk(TRUE).bad

IsPrefix(s, t) == Len(s) <= Len(t) /\ s = SubSeq(t, 1, Len(s))

LeafBuckets == SelectSeq(RefWalk(FALSE).out, Truthy)

ExampleAggregations ==
    Obj("byCategory" :> Obj("buckets" :> Arr(<<
        Obj(("key" :> Str("a")) @@ ("tops" :> Obj("hits" :> Obj("hits" :>
            Arr(<<Obj("_source" :> Obj("id" :> Num(1)))>>))))),
        Obj(("key" :> Str("b")) @@ ("tops" :> Obj("hits" :> Obj("hits" :>
            Arr(<<Obj("_source" :> Obj("id" :> Num(2))),
                  Obj("_source" :> Obj("id" :> Num(3)))>>)))))>>)))

\* C1: for a response that matches the path, flatTermsAggregations followed
\* by flatTopHitsAggregation yields the _source of every hit envelope of
\* every leaf bucket, each once, in bucket-then-hit order; G leaf buckets of
\* N hits each give N*G records; the byCategory example gives ids 1, 2, 3.
ThmC1_RoundTrip ==
    (Returned /\ Unwrapped /\ MatchesPath) =>
        /\ outcome.st = "seq"
        /\ drain # "thrown"
        /\ IsPrefix(yielded, RefWalk(TRUE).out)
        /\ drain = "ended" =>
            /\ yielded = RefWalk(TRUE).out
            /\ \A i \in 1..Len(yielded) : yielded[i] = Obj("id" :> Num(i))
            /\ \A i \in 1..Len(LeafBuckets) :
                    \A j \in 1..Len(HitSources(LeafBuckets[i])) :
                        \E k \in 1..Len(yielded) :
                            yielded[k] = HitSources(LeafBuckets[i])[j]
            /\ \A n \in 0..(MaxHits + 1) :
                    (\A i \in 1..Len(LeafBuckets) :
                        Len(HitSources(LeafBuckets[i])) = n)
                    => Len(yielded) = n * Len(LeafBuckets)
            /\ (AggsOf(response) = ExampleAggregations /\ path = <<"byCategory">>)
                    => yielded = <<Obj("id" :> Num(1)), Obj("id" :> Num(2)),
                                   Obj("id" :> Num(3))>>

\* two grouping levels, two leaf buckets of two hits each, drained to the end
WitC1_TwoLevels ==
    /\ Returned /\ Unwrapped /\ MatchesPath
    /\ Len(path) = 2
    /\ Len(LeafBuckets) = 2
    /\ \A i \in 1..2 : Len(HitSources(LeafBuckets[i])) = 2
    /\ drain = "ended"
    /\ Len(yielded) = 4

NoAggregations == response # Undefined /\ AggsOf(response) = Undefined

\* C2: without an aggregations section, flatTermsAggregations,
\* runGroupingQuery and runTopHitsQuery give an empty sequence and no error,
\* whatever the path.
ThmC2_NoAggregations ==
    (Returned /\ NoAggregations) =>
        /\ outcome.st = "seq"
        /\ yielded = <<>>
        /\ drain \in {"idle", "ended"}
        /\ op \in RunOps => promise.st = "resolved"

\* runTopHitsQuery on a response without aggregations, longest path, drained
WitC2_EmptyDrained ==
    /\ Returned /\ NoAggregations
    /\ op = "runTopHitsQuery"
    /\ Len(path) = MaxPath
    /\ drain = "ended"
    /\ yielded = <<>>

\* C8: when a name of the path (or the top-hits node) is missing, the
\* TypeError reaches the caller: the call throws or the promise rejects, or
\* the drain throws; the sequence never ends normally, and nothing that
\* follows the offending bucket is yielded.
ThmC8_FailurePropagates ==
    (Returned /\ Mismatch) =>
        /\ drain # "ended"
        /\ outcome.st = "thrown" =>
            /\ outcome.error = "TypeError"
            /\ FirstNameMissing
            /\ op \in RunOps => promise = [st |-> "rejected", error |-> "TypeError"]
        /\ outcome.st = "seq" =>
            /\ FirstNamePresent
            /\ IsPrefix(yielded, RefWalk(Unwrapped).out)

\* a later name is missing from the second outer bucket: the drain threw
\* after the buckets of the first
WitC8_ThrownInDrain ==
    /\ Returned /\ Mismatch
    /\ Len(path) = 2
    /\ ~Unwrapped
    /\ drain = "thrown"
    /\ yielded # <<>>

\* C9 as stated: a mismatch at any position makes the call throw (the promise
\* reject) before a sequence is handed over and before an element is yielded.
CexC9_AlwaysImmediate ==
    (Returned /\ Mismatch /\ (Unwrapped => op = "runTopHitsQuery")) =>
        /\ outcome.st = "thrown"
        /\ yielded = <<>>
        /\ op \in RunOps => promise.st = "rejected"

\* C9 (amended): a missing first name makes flatTermsAggregations throw, and
\* the promise of runGroupingQuery / runTopHitsQuery reject, before any
\* sequence is handed over; with the first name present the sequence is
\* always handed over (the promise resolves), and a mismatch at a later name
\* or at the top-hits node surfaces only while draining, when the first
\* offending bucket is reached, after the elements that precede it.
ThmC9_ImmediateOnlyForFirstName ==
    /\ (Returned /\ FirstNameMissing) =>
        /\ outcome = Thrown("TypeError")
        /\ yielded = <<>>
        /\ drain = "idle"
        /\ op \in RunOps => promise = [st |-> "rejected", error |-> "TypeError"]
    /\ (Returned /\ FirstNamePresent) =>
        /\ outcome.st = "seq"
        /\ op \in RunOps => promise.st = "resolved"
        /\ drain = "thrown" =>
            /\ RefWalk(Unwrapped).bad
            /\ yielded = RefWalk(Unwrapped).out
        /\ RefWalk(Unwrapped).bad => drain # "ended"

\* runTopHitsQuery resolved, and the drain threw after yielding a record
WitC9_LateFailure ==
    /\ Returned /\ FirstNamePresent
    /\ op = "runTopHitsQuery"
    /\ promise.st = "resolved"
    /\ drain = "thrown"
    /\ yielded # <<>>

\* C10: when client.search fails, the run*Query promise rejects with that
\* same error and no flattening step runs.
ThmC10_ClientFailure ==
    (pc = "returned" /\ client.st = "fail") =>
        /\ op \in RunOps
        /\ promise = [st |-> "rejected", error |-> client.error]
        /\ outcome = Thrown(client.error)
        /\ steps = <<>>
        /\ response = Undefined
        /\ yielded = <<>>
        /\ drain = "idle"

\* runSimplesQuery rejected with the client's ResponseError
WitC10_Rejected ==
    /\ pc = "returned"
    /\ op = "runSimplesQuery"
    /\ client = [st |-> "fail", error |-> "ResponseError"]
    /\ promise = [st |-> "rejected", error |-> "ResponseError"]

-----------------------------------------------------------------------------
(* Requests *)

\* C11: every call of a run*Query issues exactly one client.search request,
\* with the caller's params object, whether the request succeeds or fails;
\* no other request is issued, before the promise settles or while the
\* returned sequence is drained.
ThmC11_OneRequest ==
    /\ op \in RunOps =>
        /\ pc \in {"awaiting", "returned"}
        /\ requests = 1
        /\ searched = <<params>>
        /\ params \in ParamsObjects
    /\ op \notin RunOps => (requests = 0 /\ searched = <<>>)

\* a failed request was not retried; a sequence was drained with no new request
WitC11_DrainedAfterOneRequest ==
    /\ op = "runTopHitsQuery"
    /\ drain = "ended"
    /\ Len(yielded) = 2
    /\ requests = 1
    /\ searched = <<"whereParams">>

-----------------------------------------------------------------------------
(* Totality of the builders (SpecBuilders) *)

\* C13: the fragment builders are total: whatever the input, an absent item
\* list of and / or, an absent pair list of orderBy, an absent order of by /
\* byExpr, an absent size of topHits and an absent field tuple of byExpr
\* included, a call returns a value and never raises an exception.
CexC13_BuildersNeverRaise == ret.t # "exception"

-----------------------------------------------------------------------------
(* The plain search (Spec) *)

\* the top-level hit list of the response, as the response holds it
TopHitList == response.props["body"].props["hits"].props["hits"].items

\* the response without its aggregations section
WithoutAggregations ==
    Obj("body" :> Obj("hits" :> response.props["body"].props["hits"]))

SimpleReturned ==
    /\ op = "runSimplesQuery"
    /\ pc = "returned"
    /\ client.st = "ok"
    /\ response.props["body"] # Undefined

\* C12: for a response with a top-level hit list runSimplesQuery returns the
\* _source record of each hit envelope, one per envelope, in hit-list order,
\* none filtered out, and the result is the same whether the response has an
\* aggregations section or not.
ThmC12_SimpleSources ==
    SimpleReturned =>
        /\ promise.st = "resolved"
        /\ outcome.st = "seq"
        /\ ~outcome.throws
        /\ Len(outcome.out) = Len(TopHitList)
        /\ \A i \in 1..Len(TopHitList) :
                outcome.out[i] = TopHitList[i].props["_source"]
        /\ yielded = SubSeq(outcome.out, 1, Len(yielded))
        /\ drain # "thrown"
        /\ drain = "ended" => yielded = outcome.out
        /\ outcome = runSimplesQuery([st |-> "ok",
                                      response |-> WithoutAggregations]).result

\* two hits drained in order from a response that also has aggregations
WitC12_TwoHitsBesideAggregations ==
    /\ SimpleReturned
    /\ HasAggregations
    /\ AggsOf(response) # Obj(<<>>)
    /\ Len(TopHitList) = 2
    /\ drain = "ended"
    /\ Len(yielded) = 2
    /\ yielded[1] # yielded[2]

-----------------------------------------------------------------------------
(* Absence under composition (SpecBuilders) *)

\* the semantic input of the call is absent
InputAbsent ==
    CASE call.fn \in {"gte", "lte", "lt"} -> call.args[2] \in FalsyValues
      [] call.fn = "between" ->
            call.args[2] \in FalsyValues /\ call.args[3] \in FalsyValues
      [] call.fn = "isIn" ->
            \/ call.args[2] \in FalsyValues
            \/ \A i \in 1..Len(call.args[2].items) :
                    call.args[2].items[i] = Undefined
      [] call.fn = "equals" -> call.args[2] = Undefined
      [] call.fn = "select" -> call.args[1] \in FalsyValues
      [] call.fn = "nested" -> call.args[2] \in FalsyValues
      [] call.fn \in {"and", "or"} ->
            /\ call.args[1].t = "array"
            /\ \A i \in 1..Len(call.args[1].items) :
                    call.args[1].items[i] \in FalsyValues

LeafAbsent(l) ==
    CASE l.fn = "gte" -> l.arg \in FalsyValues
      [] l.fn = "equals" -> l.arg = Undefined
      [] l.fn = "isIn" -> \A i \in 1..Len(l.arg.items) : l.arg.items[i] = Undefined

RECURSIVE AllLeavesAbsent(_)

AllLeavesAbsent(t) ==
    CASE t.k = "leaf" -> LeafAbsent(t)
      [] t.k = "nested" -> AllLeavesAbsent(t.sub)
      [] OTHER -> \A i \in 1..Len(t.subs) : AllLeavesAbsent(t.subs[i])

\* C14: gte, lte, lt, between, isIn, equals, select, nested, and, or return
\* undefined exactly when their semantic input is absent; an expression built
\* from and / or / nested over leaves that are all absent evaluates to
\* undefined, so that where() of it is the empty envelope {}, while where of
\* a fragment is {query: fragment}.
ThmC14_AbsencePropagates ==
    /\ call.fn \in {"gte", "lte", "lt", "between", "isIn", "equals", "select",
                    "nested", "and", "or"} =>
            ((ret = Undefined) <=> InputAbsent)
    /\ call.fn = "where" =>
            ret = IF call.args[1] \in FalsyValues
                  THEN Obj(<<>>)
                  ELSE Obj("query" :> call.args[1])
    /\ call.fn = "whereOf" =>
            /\ AllLeavesAbsent(call.args[1]) <=> (ret = Obj(<<>>))
            /\ ret # Obj(<<>>) =>
                    /\ ret.t = "object"
                    /\ DOMAIN ret.props = {"query"}
                    /\ ret.props["query"].t = "object"

\* an and over a nested and an or, all of whose leaves are absent, went
\* through where as the empty envelope
WitC14_AbsentTree ==
    /\ call.fn = "whereOf"
    /\ call.args[1].k = "and"
    /\ Len(call.args[1].subs) = 2
    /\ call.args[1].subs[1].k = "nested"
    /\ call.args[1].subs[2].k \in {"leaf", "or"}
    /\ AllLeavesAbsent(call.args[1])
    /\ ret = Obj(<<>>)

-----------------------------------------------------------------------------
(* The walk of the path (Spec) *)

\* the result of the grouping walk, not unwrapped, of a response the path
\* matches down to the deepest named level
WalkedMatching ==
    /\ Returned
    /\ ~Unwrapped
    /\ FirstNamePresent
    /\ ~RefWalk(FALSE).bad

-----------------------------------------------------------------------------
(* Falsy bucket entries (Spec) *)

RECURSIVE StripList(_, _, _)

\* the bucket list without the falsy entries of the lists that are descended
\* into for a further name, or unwrapped
StripList(list, names, unwrap) ==
    IF names = <<>>
    THEN IF unwrap THEN SelectSeq(list, Truthy) ELSE list
    ELSE LET present == SelectSeq(list, Truthy)
         IN  [i \in 1..Len(present) |->
                IF Head(names) \notin DOMAIN present[i].props
                THEN present[i]
                ELSE Obj([present[i].props EXCEPT ![Head(names)] =
                        AggNode(StripList(@.props["buckets"].items,
                                          Tail(names), unwrap))])]

RECURSIVE StrictWalkList(_, _, _)

\* the walk that dereferences every entry it meets: out, and bad when an
\* entry is falsy or lacks the node the walk needs; out stops before it
StrictWalkList(list, names, unwrap) ==
    IF list = <<>>
    THEN [out |-> <<>>, bad |-> FALSE]
    ELSE LET entry == Head(list)
             below ==
                IF names = <<>> /\ ~unwrap
                THEN [out |-> <<entry>>, bad |-> FALSE]
                ELSE IF entry = Null
                THEN [out |-> <<>>, bad |-> TRUE]
                ELSE IF names = <<>>
                THEN IF "tops" \in DOMAIN entry.props
                     THEN [out |-> HitSources(entry), bad |-> FALSE]
                     ELSE [out |-> <<>>, bad |-> TRUE]
                ELSE IF Head(names) \in DOMAIN entry.props
                     THEN StrictWalkList(
                            entry.props[Head(names)].props["buckets"].items,
                            Tail(names), unwrap)
                     ELSE [out |-> <<>>, bad |-> TRUE]
         IN  IF below.bad
             THEN below
             ELSE LET after == StrictWalkList(Tail(list), names, unwrap)
                  IN  [out |-> below.out \o after.out, bad |-> after.bad]

TopBuckets == AggsOf(response).props[Head(path)].props["buckets"].items

\* the strict walk of the response once its falsy entries are taken out
CleanWalk ==
    StrictWalkList(StripList(TopBuckets, Tail(path), Unwrapped),
                   Tail(path), Unwrapped)

\* C16: falsy entries of a bucket list that is descended into for a further
\* name, or unwrapped by flatTopHitsAggregation, are discarded before they
\* are dereferenced: the result, element for element and failure included, is
\* the one of the response without these entries, so that such an entry
\* causes no failure, yields nothing and leaves the order of the rest alone.
ThmC16_FalsySkipped ==
    (Returned /\ FirstNamePresent) =>
        /\ outcome.st = "seq"
        /\ outcome.out = CleanWalk.out
        /\ outcome.throws = CleanWalk.bad
        /\ IsPrefix(yielded, CleanWalk.out)
        /\ drain = "thrown" => CleanWalk.bad
        /\ drain = "ended" => (yielded = CleanWalk.out /\ ~CleanWalk.bad)

\* a falsy entry ahead of a bucket in a list that is descended into for the
\* second name: the records below the bucket were drained to the end
WitC16_FalsyAhead ==
    /\ Returned
    /\ FirstNamePresent
    /\ Unwrapped
    /\ Len(path) = 2
    /\ TopBuckets # <<>>
    /\ Head(TopBuckets) = Null
    /\ StripList(TopBuckets, Tail(path), TRUE) # <<>>
    /\ drain = "ended"
    /\ Len(yielded) >= 1

-----------------------------------------------------------------------------
(* Grouping walk and top-hits unwrap (Spec) *)

\* what runGroupingQuery gives for the response the client resolved with
GroupingResult == runGroupingQuery(client, Head(path), Tail(path)).result

RunReturned(o) == op = o /\ pc = "returned" /\ client.st = "ok"

\* C17: for every response and path, runTopHitsQuery returns what
\* flatTopHitsAggregation, with the node name 'tops', makes of the sequence
\* runGroupingQuery returns for that response and path (and fails as
\* runGroupingQuery fails, when it does); the caller who chains
\* flatTopHitsAggregation to runGroupingQuery has the result of
\* runTopHitsQuery; runGroupingQuery alone yields bucket objects of the
\* response, not source records.
ThmC17_UnwrapSeparable ==
    /\ RunReturned("runTopHitsQuery") =>
            outcome = IF GroupingResult.st = "thrown"
                      THEN GroupingResult
                      ELSE flatTopHitsAggregation(GroupingResult, "tops")
    /\ (RunReturned("runGroupingQuery") /\ Unwrapped) =>
            outcome = runTopHitsQuery(client, Head(path), Tail(path)).result
    /\ (RunReturned("runGroupingQuery") /\ ~Unwrapped /\ outcome.st = "seq") =>
            /\ outcome = GroupingResult
            /\ \A i \in 1..Len(outcome.out) :
                    \/ outcome.out[i] = Null
                    \/ /\ outcome.out[i].t = "object"
                       /\ "key" \in DOMAIN outcome.out[i].props
                       /\ "id" \notin DOMAIN outcome.out[i].props
            /\ (FirstNamePresent /\ ~RefWalk(FALSE).bad) =>
                    outcome.out = RefWalk(FALSE).out

\* the caller unwrapped the buckets of runGroupingQuery under a path of two
\* names and drained the two records
WitC17_ChainedByCaller ==
    /\ RunReturned("runGroupingQuery")
    /\ Unwrapped
    /\ Len(path) = 2
    /\ drain = "ended"
    /\ Len(yielded) = 2
    /\ yielded = <<Rec(1), Rec(2)>>

-----------------------------------------------------------------------------
(* Calls in flight together (SpecConc) *)

\* what the call gives when it runs alone on its own response and path
AloneOutcome(c) ==
    IF c.client.st = "fail"
    THEN Thrown(c.client.error)
    ELSE LET own == c.client.response
             ownBody == own.props["body"]
         IN  IF c.op = "runSimplesQuery"
             THEN IF ownBody = Undefined
                  THEN Thrown("TypeError")
                  ELSE LET ownHits == ownBody.props["hits"].props["hits"].items
                       IN  Seq_([i \in 1..Len(ownHits) |->
                                    ownHits[i].props["_source"]], FALSE)
             ELSE IF AggsOf(own) = Undefined
                  THEN Seq_(<<>>, FALSE)
                  ELSE IF Head(c.path) \notin DOMAIN AggsOf(own).props
                       THEN Thrown("TypeError")
                       ELSE LET ownWalk ==
                                    RefWalkList(
                                        AggsOf(own).props[Head(c.path)]
                                            .props["buckets"].items,
                                        Tail(c.path),
                                        c.op = "runTopHitsQuery")
                            IN  Seq_(ownWalk.out, ownWalk.bad)

\* C18: calls in flight together on one client do not interfere: whatever
\* the order in which the searches settle, each call returns (or throws)
\* what it would alone with its own response and path, and the failure of
\* one call leaves the other as it is.
ThmC18_NoInterference ==
    \A id \in DOMAIN calls :
        /\ calls[id].pc = "returned" =>
                /\ calls[id].outcome = AloneOutcome(calls[id])
                /\ calls[id].outcome.st = "seq" =>
                        IsPrefix(calls[id].yielded, AloneOutcome(calls[id]).out)
        /\ calls[id].pc = "awaiting" => calls[id].outcome = [st |-> "none"]

\* two calls in flight, settled in the reverse of the order they were
\* issued in: the first drained its own two records, the second failed
WitC18_OutOfOrder ==
    /\ DOMAIN calls = CallIds
    /\ calls["A"].issued = 1
    /\ calls["B"].settled = 1
    /\ calls["A"].settled = 2
    /\ calls["A"].op = "runTopHitsQuery"
    /\ calls["A"].drain = "ended"
    /\ calls["A"].yielded = <<Rec(1), Rec(2)>>
    /\ calls["B"].pc = "returned"
    /\ calls["B"].outcome.st = "thrown"
    /\ calls["B"].client.st = "fail"

-----------------------------------------------------------------------------
(* Frame (SpecFrame) *)

FrameStep ==
    /\ argsAfter' = call'.args
    /\ response # Undefined => response' = response

-----------------------------------------------------------------------------
(* Absent entries of isIn and equals (SpecBuilders) *)

DefinedFalsy == FalsyValues \ {Undefined}

\* C20: isIn and equals take only undefined for an absent entry, where the
\* range comparators take every falsy value: a defined falsy entry (0, the
\* empty string, false, null, NaN) stays in the terms list, equals of such
\* a value is the terms fragment over that one value while gte of it is
\* undefined; isIn is undefined only for falsy values or for a list whose
\* entries are all undefined.
ThmC20_OnlyUndefinedIsAbsent ==
    /\ call.fn = "equals" =>
            ret = IF call.args[2] = Undefined
                  THEN Undefined
                  ELSE Obj("terms" :> Obj(call.args[1].s :> Arr(<<call.args[2]>>)))
    /\ (call.fn = "isIn" /\ call.args[2].t = "array") =>
            LET given == call.args[2].items
                falsyKept == {i \in 1..Len(given) : given[i] \in DefinedFalsy}
            IN  /\ (ret = Undefined) <=>
                        \A i \in 1..Len(given) : given[i] = Undefined
                /\ ret # Undefined =>
                        \A i \in falsyKept :
                            \E j \in 1..Len(ret.props["terms"].props[call.args[1].s].items) :
                                ret.props["terms"].props[call.args[1].s].items[j] = given[i]
    /\ (call.fn = "isIn" /\ call.args[2].t # "array") => ret = Undefined
    /\ (call.fn \in {"gte", "lte", "lt"} /\ call.args[2] \in DefinedFalsy) =>
            ret = Undefined

\* equals of the number 0 gave the terms fragment over [0]
WitC20_EqualsZero ==
    /\ call.fn = "equals"
    /\ call.args[2] = Num(0)
    /\ ret = Obj("terms" :> Obj(call.args[1].s :> Arr(<<Num(0)>>)))

-----------------------------------------------------------------------------
(* The list of the last name (Spec) *)

RECURSIVE SumOver(_)

SumOver(numbers) ==
    IF numbers = <<>> THEN 0 ELSE Head(numbers) + SumOver(Tail(numbers))

FalsyIn(list) == Cardinality({i \in 1..Len(list) : ~Truthy(list[i])})

RECURSIVE FalsyAtDeepest(_, _)

\* the number of falsy entries in the bucket lists of the last name, below
\* the buckets of the list that are not falsy
FalsyAtDeepest(list, names) ==
    IF names = <<>>
    THEN FalsyIn(list)
    ELSE LET parents == SelectSeq(list, Truthy)
         IN  SumOver([i \in 1..Len(parents) |->
                FalsyAtDeepest(
                    parents[i].props[Head(names)].props["buckets"].items,
                    Tail(names))])

\* C21: flatTermsAggregations filters a bucket list only when it descends
\* from it: the list of the last name of the path comes back unfiltered, so
\* that every falsy entry of the deepest level is in the sequence returned by
\* flatTermsAggregations and runGroupingQuery, at its place, and is gone only
\* once flatTopHitsAggregation (or runTopHitsQuery) has been applied.
ThmC21_LastListUnfiltered ==
    (Returned /\ FirstNamePresent /\ ~RefWalk(FALSE).bad) =>
        /\ outcome.st = "seq"
        /\ ~Unwrapped =>
                /\ FalsyIn(outcome.out) = FalsyAtDeepest(TopBuckets, Tail(path))
                /\ Len(path) = 1 => outcome.out = TopBuckets
                /\ drain = "ended" =>
                        FalsyIn(yielded) = FalsyAtDeepest(TopBuckets, Tail(path))
        /\ Unwrapped =>
                /\ FalsyIn(outcome.out) = 0
                /\ FalsyIn(yielded) = 0

\* runGroupingQuery under two names: the falsy entry at the head of the list
\* of the second name was yielded, ahead of the bucket that follows it
WitC21_FalsyYielded ==
    /\ Returned
    /\ op = "runGroupingQuery"
    /\ ~Unwrapped
    /\ Len(path) = 2
    /\ drain = "ended"
    /\ Len(yielded) = 2
    /\ yielded[1] = Null
    /\ yielded[2] # Null

=============================================================================
